---- MODULE Spec2Model ----
(***************************************************************************)
(* News-feed ingestion (bny-ai-risk-management): the structured-API driver *)
(* (news_feeds/gdelt_news/ingest.py), the HTML-scrape driver               *)
(* (news_feeds/yahoo_finance/ingest.py) and the dataset validator          *)
(* (news_feeds/gdelt_news/validate.py), as one state machine.  A behaviour *)
(* is a sequence of process runs that share the seen-set store             *)
(* (state/seen_ids.sqlite) and write their own CSV datasets.               *)
(*                                                                         *)
(* Strings are TLA+ strings handled character by character (Len, SubSeq,   *)
(* \o), so that parsing, case folding and substring tests are computed,    *)
(* not assumed.                                                            *)
(***************************************************************************)
EXTENDS Integers, Sequences, FiniteSets, TLC

(***************************************************************************)
(* Python str helpers                                                      *)
(***************************************************************************)
Min(S) == CHOOSE m \in S : \A n \in S : m <= n
Max(S) == CHOOSE m \in S : \A n \in S : n <= m

\* s[i-1:j] with 1-based inclusive bounds, clipped to the string as Python
\* clips a slice
Slice(s, i, j) ==
    IF Max({i, 1}) > Min({j, Len(s)}) THEN ""
    ELSE SubSeq(s, Max({i, 1}), Min({j, Len(s)}))

\* s[i-1:i]
CharAt(s, i) == Slice(s, i, i)

\* s[i-1:]
From(s, i) == Slice(s, i, Len(s))

\* the least index of I, none when I is empty
FirstIndex(I, none) == IF I = {} THEN none ELSE Min(I)

\* s.find(sub, start): the least 1-based index >= start where sub occurs,
\* 0 when there is none (Python's -1)
Find(s, sub, start) ==
    FirstIndex({i \in start..(Len(s) - Len(sub) + 1) :
                   Slice(s, i, i + Len(sub) - 1) = sub}, 0)

\* sub in s
Contains(s, sub) == Find(s, sub, 1) # 0

UpperChars == "ABCDEFGHIJKLMNOPQRSTUVWXYZ"
LowerChars == "abcdefghijklmnopqrstuvwxyz"
DigitChars == "0123456789"

LowerCharAt(c, i) == IF i = 0 THEN c ELSE CharAt(LowerChars, i)
LowerChar(c) == LowerCharAt(c, Find(UpperChars, c, 1))

\* s.lower()
RECURSIVE Lower(_)
Lower(s) == IF s = "" THEN "" ELSE LowerChar(CharAt(s, 1)) \o Lower(From(s, 2))

\* s.strip(), for the whitespace that occurs in the inputs (the space)
RECURSIVE LStrip(_)
LStrip(s) == IF s # "" /\ CharAt(s, 1) = " " THEN LStrip(From(s, 2)) ELSE s

RECURSIVE RStrip(_)
RStrip(s) ==
    IF s # "" /\ CharAt(s, Len(s)) = " " THEN RStrip(Slice(s, 1, Len(s) - 1)) ELSE s

Strip(s) == RStrip(LStrip(s))

(***************************************************************************)
(* urllib.parse, as far as the two normalize_link functions use it         *)
(* (CPython 3.11 urlsplit / urlunsplit / urljoin; inputs hold no ';'       *)
(* params, no control characters, no dot segments and no bracketed hosts)  *)
(***************************************************************************)
\* urllib.parse.uses_netloc / uses_relative restricted to the schemes below
UsesNetloc == {"", "http", "https", "ftp", "file", "ws", "wss"}
UsesRelative == {"", "http", "https", "ftp", "file", "ws", "wss"}

IsAlpha(c) == c # "" /\ (Contains(UpperChars, c) \/ Contains(LowerChars, c))
IsSchemeChar(c) == IsAlpha(c) \/ (c # "" /\ (Contains(DigitChars, c) \/ Contains("+-.", c)))

\* urlsplit's scheme test: url[:i] is a scheme when i > 0, url[0] is a letter and
\* every character before the colon is a scheme character
SchemeEndAt(url, i) ==
    IF i > 1 /\ IsAlpha(CharAt(url, 1))
       /\ \A k \in 1..(i - 1) : IsSchemeChar(CharAt(url, k))
    THEN i ELSE 0

SchemeEnd(url) == SchemeEndAt(url, Find(url, ":", 1))

\* _splitnetloc(url, 2): the netloc ends at the first of / ? #
NetlocEnd(rest) ==
    FirstIndex({i \in 3..Len(rest) : CharAt(rest, i) \in {"/", "?", "#"}}, Len(rest) + 1)

\* urlsplit, stage by stage: the query, split off what is left at the first "?"
SplitQuery(scheme, netloc, rest, fragment, q) ==
    [scheme |-> scheme, netloc |-> netloc,
     path |-> IF q > 0 THEN Slice(rest, 1, q - 1) ELSE rest,
     query |-> IF q > 0 THEN From(rest, q + 1) ELSE "",
     fragment |-> fragment]

\* the fragment, split off at the first "#"
SplitFragmentAt(scheme, netloc, rest, h) ==
    SplitQuery(scheme, netloc,
               IF h > 0 THEN Slice(rest, 1, h - 1) ELSE rest,
               IF h > 0 THEN From(rest, h + 1) ELSE "",
               Find(IF h > 0 THEN Slice(rest, 1, h - 1) ELSE rest, "?", 1))

SplitFragment(scheme, netloc, rest) ==
    SplitFragmentAt(scheme, netloc, rest, Find(rest, "#", 1))

\* the netloc, when what follows the scheme starts with "//"
SplitNetloc(scheme, rest) ==
    IF Slice(rest, 1, 2) = "//"
    THEN SplitFragment(scheme, Slice(rest, 3, NetlocEnd(rest) - 1),
                       From(rest, NetlocEnd(rest)))
    ELSE SplitFragment(scheme, "", rest)

\* the scheme, lowered, when the url has one
SplitScheme(url, default, i) ==
    IF i > 0 THEN SplitNetloc(Lower(Slice(url, 1, i - 1)), From(url, i + 1))
    ELSE SplitNetloc(default, url)

\* urlparse(url, scheme=default)
UrlParseDefault(url, default) == SplitScheme(url, default, SchemeEnd(url))

\* urlparse(url)
UrlParse(url) == UrlParseDefault(url, "")

\* urlunsplit's first step: "//" netloc path, with a "/" put before a relative path
UnparseNetloc(p) ==
    IF p.netloc # ""
       \/ (p.scheme # "" /\ p.scheme \in UsesNetloc /\ Slice(p.path, 1, 2) # "//")
    THEN "//" \o p.netloc
         \o (IF p.path # "" /\ CharAt(p.path, 1) # "/" THEN "/" ELSE "")
         \o p.path
    ELSE p.path

\* urlunparse(parts)
UrlUnparse(p) ==
    (IF p.scheme # "" THEN p.scheme \o ":" ELSE "")
    \o UnparseNetloc(p)
    \o (IF p.query # "" THEN "?" \o p.query ELSE "")
    \o (IF p.fragment # "" THEN "#" \o p.fragment ELSE "")

\* the index of the last "/" of a path, 0 when it has none
LastSlash(path) ==
    IF \A i \in 1..Len(path) : CharAt(path, i) # "/" THEN 0
    ELSE Max({i \in 1..Len(path) : CharAt(path, i) = "/"})

\* urljoin's path: an absolute path as it is, a relative one after the
\* directory of the base path
MergePath(bpath, path) ==
    IF CharAt(path, 1) = "/" THEN path ELSE Slice(bpath, 1, LastSlash(bpath)) \o path

\* urljoin(base, url) on the parsed base b and the parsed url u
UrlJoinParsed(url, b, u) ==
    IF u.scheme # b.scheme \/ u.scheme \notin UsesRelative THEN url
    ELSE IF u.scheme \in UsesNetloc /\ u.netloc # "" THEN UrlUnparse(u)
    ELSE IF u.path = ""
    THEN UrlUnparse([scheme |-> u.scheme,
                     netloc |-> IF u.scheme \in UsesNetloc THEN b.netloc ELSE u.netloc,
                     path |-> b.path,
                     query |-> IF u.query = "" THEN b.query ELSE u.query,
                     fragment |-> u.fragment])
    ELSE UrlUnparse([scheme |-> u.scheme,
                     netloc |-> IF u.scheme \in UsesNetloc THEN b.netloc ELSE u.netloc,
                     path |-> IF MergePath(b.path, u.path) = "" THEN "/"
                              ELSE MergePath(b.path, u.path),
                     query |-> u.query,
                     fragment |-> u.fragment])

\* urljoin(base, url)
UrlJoin(base, url) ==
    IF base = "" THEN url
    ELSE IF url = "" THEN base
    ELSE UrlJoinParsed(url, UrlParse(base), UrlParseDefault(url, UrlParse(base).scheme))

(***************************************************************************)
(* Program constants                                                       *)
(***************************************************************************)
BASE_URL(ticker) == "https://finance.yahoo.com/quote/" \o ticker \o "/news/"
FALLBACK_URL == "https://finance.yahoo.com/topic/stock-market-news/"

\* stop=stop_after_attempt(3), on fetch_json and on fetch_url
StopAfterAttempt == 3

\* --max_items default
DefaultMaxItems == 80

\* the header row ensure_csv writes and validate_csv expects
SCHEMA == <<"id", "title", "link", "published", "source", "summary", "query", "fetched_at">>
REQUIRED_FIELDS == {"id", "title", "link", "fetched_at"}

(***************************************************************************)
(* Values: a JSON / YAML field is absent, null or a string                 *)
(***************************************************************************)
Str(s) == [tag |-> "str", val |-> s]
Null == [tag |-> "null", val |-> ""]
Absent == [tag |-> "absent", val |-> ""]

\* Python truthiness of dict.get(key): None and "" are falsy
Truthy(f) == f.tag = "str" /\ f.val # ""

(***************************************************************************)
(* Exceptions and HTTP responses                                           *)
(* status 0 stands for "no response" (connection error or timeout)         *)
(***************************************************************************)
HTTPError(status) == [type |-> "HTTPError", has_response |-> TRUE, status |-> status]
ConnectionError == [type |-> "ConnectionError", has_response |-> FALSE, status |-> 0]
SkipUrl == [type |-> "SkipUrl", has_response |-> FALSE, status |-> 404]
RetryError(last_attempt) == [type |-> "RetryError", has_response |-> FALSE, status |-> last_attempt.status]
AttributeError == [type |-> "AttributeError", has_response |-> FALSE, status |-> 0]
OSError == [type |-> "OSError", has_response |-> FALSE, status |-> 0]
ValueError == [type |-> "ValueError", has_response |-> FALSE, status |-> 0]
NoExc == [type |-> "", has_response |-> FALSE, status |-> 0]

\* isinstance(exc, requests.RequestException): HTTPError and ConnectionError /
\* Timeout derive from it; SkipUrl and tenacity.RetryError do not
IsRequestException(exc) == exc.type \in {"HTTPError", "ConnectionError"}

Returned(v) == [raised |-> FALSE, exc |-> NoExc, value |-> v]
Raised(e) == [raised |-> TRUE, exc |-> e, value |-> <<>>]

(***************************************************************************)
(* Fetchers                                                                *)
(***************************************************************************)
\* gdelt_news/ingest.py should_retry
gdelt_should_retry(exception) ==
    IF exception.type = "HTTPError" /\ exception.has_response
    THEN exception.status \in {429} \/ exception.status >= 500
    ELSE IF IsRequestException(exception) THEN ~exception.has_response
    ELSE FALSE

\* yahoo_finance/ingest.py should_retry
yahoo_should_retry(exception) ==
    IF exception.type = "SkipUrl" THEN FALSE
    ELSE IF exception.type = "HTTPError" /\ exception.has_response
    THEN 500 <= exception.status /\ exception.status < 600
    ELSE IsRequestException(exception)

\* One attempt of fetch_json's body on the response session.get produced
\* (raise_for_status raises HTTPError for 4xx and 5xx)
fetch_json_raises(response) ==
    IF response.status = 0 THEN Raised(ConnectionError)
    ELSE IF response.status >= 400 THEN Raised(HTTPError(response.status))
    ELSE Returned([is_none |-> FALSE, body |-> response.body])

fetch_json(response) ==
    IF response.status = 0 THEN Raised(ConnectionError)
    ELSE IF response.status = 429 \/ response.status >= 500
    THEN Raised(HTTPError(response.status))
    ELSE IF 400 <= response.status /\ response.status < 500
    THEN Returned([is_none |-> TRUE, body |-> response.body])
    ELSE Returned([is_none |-> FALSE, body |-> response.body])

\* One attempt of fetch_url's body
fetch_url(response) ==
    IF response.status = 0 THEN Raised(ConnectionError)
    ELSE IF response.status = 404 THEN Raised(SkipUrl)
    ELSE IF 400 <= response.status /\ response.status < 600
    THEN Raised(HTTPError(response.status))
    ELSE Returned(response.body)

\* tenacity's decision after attempt number n (the @retry decorator without
\* reraise): a result is returned, an exception the predicate rejects is raised
\* as it is, the n-th retryable failure with n = stop raises RetryError
RetryingOffByOne(outcome, retryable, n) ==
    IF ~outcome.raised THEN "return"
    ELSE IF ~retryable THEN "raise"
    ELSE IF n > StopAfterAttempt THEN "retry_error"
    ELSE "retry"

Retrying(outcome, retryable, n) ==
    IF ~outcome.raised THEN "return"
    ELSE IF ~retryable THEN "raise"
    ELSE IF n >= StopAfterAttempt THEN "retry_error"
    ELSE "retry"

(***************************************************************************)
(* Canonicalizer and content addresser                                     *)
(***************************************************************************)
\* gdelt_news normalize_link(link)
gdelt_normalize_link(link) ==
    UrlUnparse([UrlParse(link) EXCEPT !.query = "", !.fragment = ""])

\* yahoo_finance normalize_link(link, base_url)
yahoo_normalize_link(link, base_url) ==
    UrlUnparse([UrlParse(UrlJoin(base_url, link)) EXCEPT !.query = "", !.fragment = ""])

\* sha256 hex digest of the link: distinct links give distinct digests
compute_id(normalized_link) == "sha256:" \o normalized_link

(***************************************************************************)
(* Source adapters                                                         *)
(***************************************************************************)
\* parse_articles(payload): payload.get("articles", []) or []
parse_articles(payload) ==
    IF payload.body.articles_tag # "list" THEN <<>> ELSE payload.body.articles

\* the source label chain: domain or sourcecountry or sourcecollection or "GDELT"
article_source(article) ==
    IF Truthy(article.domain) THEN article.domain.val ELSE "GDELT"

\* parse_news_items(html, base_url): html is the page's anchors in document
\* order, each with its href, visible text and the first paragraph of its
\* nearest article / li / div container
NewsItem(anchor, normalized) ==
    [title |-> Strip(anchor.text), link |-> normalized, published |-> "",
     source |-> "Yahoo Finance", summary |-> Strip(anchor.p)]

\* the anchors the loop passes over: no "/news/" in the href, no title, or a
\* link already taken from this page
anchor_skipped(anchor, normalized, seen_links) ==
    \/ ~Contains(anchor.href, "/news/")
    \/ Strip(anchor.text) = ""
    \/ normalized \in seen_links

RECURSIVE parse_anchors(_, _, _, _)
parse_anchor(anchors, base_url, news_items, seen_links, normalized) ==
    IF anchor_skipped(Head(anchors), normalized, seen_links)
    THEN parse_anchors(Tail(anchors), base_url, news_items, seen_links)
    ELSE parse_anchors(Tail(anchors), base_url,
                       Append(news_items, NewsItem(Head(anchors), normalized)),
                       seen_links \cup {normalized})

parse_anchors(anchors, base_url, news_items, seen_links) ==
    IF anchors = <<>> THEN news_items
    ELSE parse_anchor(anchors, base_url, news_items, seen_links,
                      yahoo_normalize_link(Head(anchors).href, base_url))

parse_news_items(html, base_url) == parse_anchors(html, base_url, <<>>, {})

\* extract_query_terms(query): the lowered, stripped, non-empty phrases between
\* matched pairs of double quotes, scanned left to right
RECURSIVE extract_from(_, _)
extract_phrase(query, start_quote, end_quote) ==
    IF start_quote = 0 \/ end_quote = 0 THEN {}
    ELSE (IF Strip(Slice(query, start_quote + 1, end_quote - 1)) # ""
          THEN {Lower(Strip(Slice(query, start_quote + 1, end_quote - 1)))}
          ELSE {})
         \cup extract_from(query, end_quote + 1)

extract_end_quote(query, start_quote) ==
    extract_phrase(query, start_quote,
                   IF start_quote = 0 THEN 0 ELSE Find(query, "\"", start_quote + 1))

extract_from(query, start) == extract_end_quote(query, Find(query, "\"", start))

extract_query_terms(query) == extract_from(query, 1)

\* matches_query(item, feed)
matches_any_text(text, feed) == TRUE

matches_text(text, feed) ==
    \/ Contains(text, Lower(feed.ticker))
    \/ \E phrase \in extract_query_terms(feed.query) : Contains(text, phrase)

matches_query(item, feed) ==
    matches_text(Lower(item.title \o " " \o item.summary), feed)

\* [item for item in seq if matches_query(item, feed)]
RECURSIVE filter_matches(_, _)
filter_matches(seq, feed) ==
    IF seq = <<>> THEN <<>>
    ELSE (IF matches_query(Head(seq), feed) THEN <<Head(seq)>> ELSE <<>>)
         \o filter_matches(Tail(seq), feed)

\* items[:max_items]: a negative stop counts from the end of the list
cap_items(seq, limit) ==
    IF limit >= 0 THEN (IF Len(seq) <= limit THEN seq ELSE SubSeq(seq, 1, limit))
    ELSE SubSeq(seq, 1, Len(seq) + limit)

\* the meta description enrich_summary takes from the article page: its
\* stripped content, when the tag is there and the content is not empty
meta_description(html) == Strip(html.meta)

(***************************************************************************)
(* Configuration                                                           *)
(***************************************************************************)
\* gdelt_news load_config(path) on the YAML document's feeds list
gdelt_feed_config(entry) ==
    [name |-> IF entry.name.tag = "absent" THEN "feed" ELSE entry.name.val,
     ticker |-> "",
     query |-> entry.query.val]

RECURSIVE gdelt_load_entries(_, _)
gdelt_load_entries(entries, feed_configs) ==
    IF entries = <<>> THEN Returned(feed_configs)
    ELSE IF ~Truthy(Head(entries).query) THEN Raised(ValueError)
    ELSE gdelt_load_entries(Tail(entries), Append(feed_configs, gdelt_feed_config(Head(entries))))

gdelt_load_config(entries) == gdelt_load_entries(entries, <<>>)

\* yahoo_finance load_config(path)
yahoo_feed_config(entry) ==
    [name |-> IF entry.name.tag = "absent" THEN Lower(entry.ticker.val) ELSE entry.name.val,
     ticker |-> entry.ticker.val,
     query |-> entry.query.val]

RECURSIVE yahoo_load_entries_skipping(_, _)
yahoo_load_entries_skipping(entries, feed_configs) ==
    IF entries = <<>> THEN Returned(feed_configs)
    ELSE IF ~Truthy(Head(entries).ticker) \/ ~Truthy(Head(entries).query)
    THEN yahoo_load_entries_skipping(Tail(entries), feed_configs)
    ELSE yahoo_load_entries_skipping(Tail(entries),
                                     Append(feed_configs, yahoo_feed_config(Head(entries))))

RECURSIVE yahoo_load_entries(_, _)
yahoo_load_entries(entries, feed_configs) ==
    IF entries = <<>> THEN Returned(feed_configs)
    ELSE IF ~Truthy(Head(entries).ticker) \/ ~Truthy(Head(entries).query)
    THEN Raised(ValueError)
    ELSE yahoo_load_entries(Tail(entries), Append(feed_configs, yahoo_feed_config(Head(entries))))

yahoo_load_config(entries) == yahoo_load_entries(entries, <<>>)

\* main after load_config: its ValueError is not caught (exit status 1), an
\* empty feeds list is "No feeds defined" (return 2)
main_loaded(loaded) ==
    IF loaded.raised THEN [exit |-> TRUE, status |-> 1, feeds |-> <<>>]
    ELSE IF loaded.value = <<>> THEN [exit |-> TRUE, status |-> 2, feeds |-> <<>>]
    ELSE [exit |-> FALSE, status |-> 0, feeds |-> loaded.value]

\* gdelt_news main up to the feed loop: the feeds list, or the exit status
\* the process ends with
gdelt_main_feeds(argv) ==
    IF Truthy(argv.query)
    THEN [exit |-> FALSE, status |-> 0,
          feeds |-> <<[name |-> argv.name, ticker |-> "", query |-> argv.query.val]>>]
    ELSE main_loaded(gdelt_load_config(argv.config))

\* yahoo_finance main up to the feed loop
yahoo_main_feeds(argv) ==
    IF Truthy(argv.ticker) /\ ~Truthy(argv.query)
    THEN [exit |-> TRUE, status |-> 2, feeds |-> <<>>]
    ELSE IF Truthy(argv.ticker)
    THEN [exit |-> FALSE, status |-> 0,
          feeds |-> <<[name |-> Lower(argv.ticker.val), ticker |-> argv.ticker.val,
                       query |-> argv.query.val]>>]
    ELSE main_loaded(yahoo_load_config(argv.config))

main_feeds(d, argv) ==
    IF d = "gdelt" THEN gdelt_main_feeds(argv) ELSE yahoo_main_feeds(argv)

(***************************************************************************)
(* Inputs: configurations, command lines and upstream responses            *)
(***************************************************************************)
\* how many process runs a behaviour holds
MaxRuns == 2

EntryAcme == [name |-> Str("acme"), ticker |-> Str("ACME"),
              query |-> Str("\"Acme Corp\" OR \"acme\"")]
EntryBny == [name |-> Absent, ticker |-> Str("BK"), query |-> Str("\"BNY Mellon\" bank")]
EntryNoQuery == [name |-> Str("broken"), ticker |-> Str("BRK"), query |-> Absent]
EntryNoTicker == [name |-> Str("untracked"), ticker |-> Absent, query |-> Str("\"Acme Corp\"")]

\* the parsed command line: --query / --ticker (None when not given), --name,
\* --max_items, and the feeds list of the file --config names
ConfigFiles == {<<EntryAcme, EntryBny>>, <<EntryAcme, EntryNoQuery>>, <<>>}

GdeltInvocations ==
    {[query |-> Absent, ticker |-> Absent, name |-> "feed",
      max_items |-> DefaultMaxItems, config |-> c] : c \in ConfigFiles}
    \cup {[query |-> Str("\"BNY Mellon\" bank"), ticker |-> Absent, name |-> "feed",
           max_items |-> DefaultMaxItems, config |-> <<>>]}

YahooInvocations ==
    {[query |-> Absent, ticker |-> Absent, name |-> "feed",
      max_items |-> DefaultMaxItems, config |-> c] :
      c \in ConfigFiles \cup {<<EntryAcme, EntryNoTicker>>}}
    \cup {[query |-> Absent, ticker |-> Absent, name |-> "feed",
           max_items |-> m, config |-> <<EntryAcme, EntryBny>>] : m \in {1, -1}}
    \cup {[query |-> q, ticker |-> Str("BK"), name |-> "feed",
           max_items |-> DefaultMaxItems, config |-> <<>>] :
           q \in {Absent, Str("\"BNY Mellon\" bank")}}

AcmeUrl == "https://finance.yahoo.com/news/acme-profits"

Article(url, title) ==
    [url |-> url, title |-> title, domain |-> Absent, snippet |-> Absent, seendate |-> Absent]

ArtAcme == [Article(Str(AcmeUrl), Str(" Acme Corp profits rise ")) EXCEPT
              !.domain = Str("finance.yahoo.com"), !.snippet = Str("Profits rose")]
ArtAcmeTracked == Article(Str(AcmeUrl \o "?utm=1#top"), Str("Acme again"))
ArtBny == Article(Str("https://x.com/news/bny"), Str("BNY Mellon rises"))
ArtNoUrl == Article(Absent, Str("No link"))
ArtNullUrl == Article(Null, Str("Null link"))
ArtEmptyUrl == Article(Str(""), Str("Empty link"))
ArtNoTitle == Article(Str("https://x.com/news/untitled"), Absent)
ArtBlankTitle == Article(Str("https://x.com/news/blank"), Str("  "))
ArtNullTitle == Article(Str("https://x.com/news/null"), Null)
ArtQueryOnly == Article(Str("?id=42"), Str("Query only"))

\* response.json(): the articles key is absent, null or a list
ApiBodies ==
    {[articles_tag |-> "null", articles |-> <<>>],
     [articles_tag |-> "list", articles |-> <<ArtAcme, ArtAcmeTracked>>],
     [articles_tag |-> "list", articles |-> <<ArtNoUrl, ArtBlankTitle, ArtBny, ArtQueryOnly>>],
     [articles_tag |-> "list", articles |-> <<ArtNullUrl, ArtEmptyUrl, ArtNoTitle, ArtAcme>>],
     [articles_tag |-> "list", articles |-> <<ArtBny, ArtNullTitle, ArtAcme>>]}

Anchor(href, text, p) == [href |-> href, text |-> text, p |-> p]

AnchorAcme == Anchor("/news/acme-profits", " Acme Corp profits rise", "")
AnchorAcmeAgain == Anchor(AcmeUrl \o "?src=rss#top", "Acme Corp profits rise", "Again")
AnchorOther == Anchor("/news/other-co", "Other Co falls", "Shares fell")
AnchorBny == Anchor("https://x.com/news/bny", "BNY Mellon rises", "")
AnchorQuote == Anchor("/quote/ACME", "Quote", "")
AnchorUntitled == Anchor("/news/untitled", "  ", "")

\* response.text of a news listing page
Pages ==
    {<<>>,
     <<AnchorAcme, AnchorOther>>,
     <<AnchorQuote, AnchorAcme, AnchorUntitled, AnchorAcmeAgain, AnchorBny>>}

\* response.text of an article page: the content of its description meta tag
ArticlePages == {[meta |-> ""], [meta |-> " Acme beat estimates "]}

Statuses == {0, 200, 403, 404, 429, 503}

\* what session.get can produce: a status with no usable body, or 200 with a body
Failures(body) == {[status |-> st, body |-> body] : st \in Statuses \ {200}}

ApiResponses ==
    Failures([articles_tag |-> "null", articles |-> <<>>])
    \cup {[status |-> 200, body |-> b] : b \in ApiBodies}

PageResponses == Failures(<<>>) \cup {[status |-> 200, body |-> b] : b \in Pages}

ArticleResponses ==
    Failures([meta |-> ""]) \cup {[status |-> 200, body |-> b] : b \in ArticlePages}

(***************************************************************************)
(* The functions above, tabulated once over the inputs the behaviours draw *)
(* from: the actions look the values up                                    *)
(***************************************************************************)
Range(seq) == {seq[i] : i \in DOMAIN seq}

ArticleUniverse == UNION {Range(b.articles) : b \in ApiBodies}

\* article.get("title", "").strip(), by title
stripped_title == [t \in {a.title.val : a \in ArticleUniverse} |-> Strip(t)]

\* normalize_link(link) of gdelt_news, by raw link
gdelt_normalized ==
    [link \in {a.url.val : a \in ArticleUniverse} |-> gdelt_normalize_link(link)]

\* the FeedConfig values a yahoo_finance run can hold
YahooFeeds == UNION {Range(yahoo_main_feeds(argv).feeds) : argv \in YahooInvocations}

PageUrls == {BASE_URL(f.ticker) : f \in YahooFeeds} \cup {FALLBACK_URL}

\* parse_news_items(html, base_url), by page and base URL
parsed_page ==
    [html \in Pages |-> [base_url \in PageUrls |-> parse_news_items(html, base_url)]]

\* [item for item in parse_news_items(html, FALLBACK_URL) if matches_query(item, feed)]
fallback_items ==
    [html \in Pages |->
        [f \in YahooFeeds |-> filter_matches(parsed_page[html][FALLBACK_URL], f)]]

\* normalize_link(item.link, url) of yahoo_finance, by item link and base URL
yahoo_normalized ==
    [link \in UNION {{it.link : it \in Range(parsed_page[html][base_url])} :
                        html \in Pages, base_url \in PageUrls}
        |-> [base_url \in PageUrls |-> yahoo_normalize_link(link, base_url)]]

\* the summary enrich_summary takes from an article page
enriched_summary == [html \in ArticlePages |-> meta_description(html)]

(***************************************************************************)
(* State                                                                   *)
(***************************************************************************)
VARIABLES
    runs,          \* process runs started so far
    driver,        \* "gdelt" or "yahoo": the script of the current run
    args,          \* the parsed command line of the current run
    feeds,         \* main's feeds list
    max_items,     \* args.max_items
    idx,           \* index in feeds of the feed of the current loop iteration
    pc,            \* "idle", "next", "fetch", "loop", "append", "exit"
    target,        \* the URL of the fetch in progress: "api", "primary", "fallback", "enrich"
    attempts,      \* attempts tenacity has made in the fetch in progress
    last,          \* the GET the last step issued, if it issued one: target, status,
                   \* attempt number and tenacity's decision
    calls,         \* calls made for this feed: fetch_json / fetch_url per target,
                   \* and append_rows
    handling,      \* the exception of the primary fetch whose except clause
                   \* fetches the fallback URL, kept until the step after that fetch
    source_label,  \* ingest_feed's source_label
    parsed,        \* the item list as it entered the item loop
    items,         \* ingest_feed's items / articles
    pos,           \* index in items of the next item of the loop
    txn,           \* ids inserted on the open connection and not yet committed
    new_rows, new_count, skipped,
    seen,          \* committed ids of table seen_feed_ids
    csv,           \* the two datasets: whether the file exists, its header, its rows
    total_new,
    exit_status,   \* the status the process ended with, read when pc = "exit"
    log,           \* what each feed of this run ended with
    prev,          \* driver, feeds and log of the previous run
    canon,         \* the canonicalizer on its own: a raw link, a link that differs
                   \* from it in query string and fragment only, and the
                   \* normalize_link results computed so far
    conc           \* two processes at once on one seen-set store: the committed
                   \* ids, the holder of the database's write lock, and each
                   \* process's item loop, open transaction and dataset

vars == <<runs, driver, args, feeds, max_items, idx, pc, target, attempts, last, calls,
          handling, source_label, parsed, items, pos, txn, new_rows, new_count, skipped, seen, csv,
          total_new, exit_status, log, prev, canon, conc>>

runVars == <<runs, driver, args, feeds, max_items, prev, canon, conc>>
loopVars == <<source_label, parsed, items, pos, new_rows, new_count, skipped>>

Targets == {"api", "primary", "fallback", "enrich"}
Callees == Targets \cup {"append"}
NoGet == [target |-> "", status |-> 0, n |-> 0, decision |-> ""]
NoFile == [exists |-> FALSE, header |-> <<>>, rows |-> <<>>]
NoRun == [driver |-> "", feeds |-> <<>>, log |-> <<>>]
NoCanon == [driver |-> "", base_url |-> "", url |-> "", link |-> "", variant |-> "",
            once |-> "", twice |-> "", other |-> "", applied |-> 0]
NoConc == [seen |-> {}, writer |-> "",
           proc |-> [p \in {"gdelt", "yahoo"} |->
                       [pc |-> "idle", items |-> <<>>, pos |-> 0, txn |-> {},
                        new_rows |-> <<>>, skipped |-> 0, rows |-> <<>>]]]
NoArgs == [query |-> Absent, ticker |-> Absent, name |-> "", max_items |-> 0,
           config |-> <<>>]

Init ==
    /\ runs = 0
    /\ driver = ""
    /\ args = NoArgs
    /\ feeds = <<>>
    /\ max_items = DefaultMaxItems
    /\ idx = 0
    /\ pc = "idle"
    /\ target = ""
    /\ attempts = 0
    /\ last = NoGet
    /\ calls = [t \in Callees |-> 0]
    /\ handling = NoExc
    /\ source_label = ""
    /\ parsed = <<>>
    /\ items = <<>>
    /\ pos = 0
    /\ txn = {}
    /\ new_rows = <<>>
    /\ new_count = 0
    /\ skipped = 0
    /\ seen = {}
    /\ csv = [d \in {"gdelt", "yahoo"} |-> NoFile]
    /\ total_new = 0
    /\ exit_status = 0
    /\ log = <<>>
    /\ prev = NoRun
    /\ canon = NoCanon
    /\ conc = NoConc

feed == feeds[idx]

\* datetime.now(timezone.utc).isoformat(), one value per run
fetched_at == runs

(***************************************************************************)
(* main: start of a run, the feed loop, end of a run                       *)
(***************************************************************************)
\* A new process starts (the previous one, if any, has exited): main parses
\* its arguments and builds the feeds list.
StartRun(d, argv) ==
    LET m == main_feeds(d, argv)
    IN /\ pc \in {"idle", "exit"}
       /\ runs < MaxRuns
       /\ runs' = runs + 1
       /\ driver' = d
       /\ args' = argv
       /\ feeds' = m.feeds
       /\ max_items' = argv.max_items
       /\ prev' = [driver |-> driver, feeds |-> feeds, log |-> log]
       /\ log' = <<>>
       /\ idx' = 0
       /\ total_new' = 0
       /\ pc' = IF m.exit THEN "exit" ELSE "next"
       /\ exit_status' = m.status
       /\ target' = ""
       /\ attempts' = 0
       /\ last' = NoGet
       /\ calls' = [t \in Callees |-> 0]
       /\ handling' = NoExc
       /\ source_label' = ""
       /\ parsed' = <<>>
       /\ items' = <<>>
       /\ pos' = 0
       /\ txn' = {}
       /\ new_rows' = <<>>
       /\ new_count' = 0
       /\ skipped' = 0
       /\ UNCHANGED <<seen, csv, canon, conc>>

\* for feed in feeds: ingest_feed(feed, ...) begins: build_params and the
\* fetch_json call, or BASE_URL.format and the fetch_url call
BeginFeed ==
    /\ pc = "next"
    /\ idx < Len(feeds)
    /\ idx' = idx + 1
    /\ pc' = "fetch"
    /\ target' = IF driver = "gdelt" THEN "api" ELSE "primary"
    /\ attempts' = 0
    /\ last' = NoGet
    /\ calls' = [t \in Callees |-> IF t = (IF driver = "gdelt" THEN "api" ELSE "primary")
                                   THEN 1 ELSE 0]
    /\ source_label' = ""
    /\ parsed' = <<>>
    /\ items' = <<>>
    /\ pos' = 0
    /\ txn' = {}
    /\ new_rows' = <<>>
    /\ new_count' = 0
    /\ skipped' = 0
    /\ UNCHANGED <<runVars, handling, seen, csv, total_new, exit_status, log>>

\* the feed loop is over: the total is logged and main returns 0
FinishRun ==
    /\ pc = "next"
    /\ idx = Len(feeds)
    /\ pc' = "exit"
    /\ exit_status' = 0
    /\ last' = NoGet
    /\ UNCHANGED <<runVars, idx, target, attempts, calls, handling, loopVars, txn,
                   seen, csv, total_new, log>>

\* What a feed ended with, as main sees it
LogEntry(outcome, count) ==
    [outcome |-> outcome, new |-> count, skipped |-> skipped,
     src |-> source_label, items |-> parsed]

\* gdelt_news main's except clauses: the error is logged and the loop continues
gdelt_main_except(exc) ==
    /\ pc' = "next"
    /\ exit_status' = exit_status

\* yahoo_finance main's except clauses: the error is logged and main returns 1
yahoo_main_except(exc) ==
    /\ pc' = "exit"
    /\ exit_status' = 1

\* An exception leaves ingest_feed: the connection's context manager rolls the
\* open transaction back (when one is open) and main's except clause runs.
\* The caller states loopVars', last', calls', seen' and csv'.
FeedRaisesKeepsTransaction(exc) ==
    /\ txn' = txn
    /\ log' = Append(log, LogEntry(exc.type, 0))
    /\ IF driver = "gdelt" THEN gdelt_main_except(exc) ELSE yahoo_main_except(exc)
    /\ target' = ""
    /\ attempts' = 0
    /\ UNCHANGED <<runVars, idx, total_new>>

FeedRaises(exc) ==
    /\ txn' = {}
    /\ log' = Append(log, LogEntry(exc.type, 0))
    /\ IF driver = "gdelt" THEN gdelt_main_except(exc) ELSE yahoo_main_except(exc)
    /\ target' = ""
    /\ attempts' = 0
    /\ UNCHANGED <<runVars, idx, total_new>>

\* ingest_feed returns count: total_new += count, and the loop goes on
FeedReturnsUncounted(count) ==
    /\ log' = Append(log, LogEntry("ok", count))
    /\ total_new' = total_new
    /\ pc' = "next"
    /\ target' = ""
    /\ attempts' = 0
    /\ UNCHANGED <<runVars, idx, exit_status>>

FeedReturns(count) ==
    /\ log' = Append(log, LogEntry("ok", count))
    /\ total_new' = total_new + count
    /\ pc' = "next"
    /\ target' = ""
    /\ attempts' = 0
    /\ UNCHANGED <<runVars, idx, exit_status>>

(***************************************************************************)
(* Seen-set store and dataset                                              *)
(***************************************************************************)
\* SELECT 1 FROM seen_feed_ids WHERE id = ? on the open connection: the
\* committed rows and the connection's own uncommitted inserts
existing_never(committed, uncommitted, feed_id) == FALSE

existing_committed(committed, uncommitted, feed_id) == feed_id \in committed

existing(committed, uncommitted, feed_id) == feed_id \in (committed \cup uncommitted)

\* insert_seen_id(conn, feed_id, first_seen_at): INSERT OR IGNORE
insert_seen_id_dropped(uncommitted, feed_id) == uncommitted

insert_seen_id(uncommitted, feed_id) == uncommitted \cup {feed_id}

\* ensure_csv(out_csv)
ensure_csv(file) ==
    IF file.exists THEN file ELSE [exists |-> TRUE, header |-> SCHEMA, rows |-> <<>>]

\* append_rows(out_csv, rows), opening the file in append mode
append_rows(file, rows) ==
    [exists |-> TRUE, header |-> file.header, rows |-> file.rows \o rows]

Row(feed_id, title, link, published, source, summary) ==
    [id |-> feed_id, title |-> title, link |-> link, published |-> published,
     source |-> source, summary |-> summary, query |-> feed.query,
     fetched_at |-> fetched_at]

\* validate_csv(path): "" when the file passes, else the error it raises
row_missing_field(row) ==
    \E field \in REQUIRED_FIELDS :
        \* fetched_at is isoformat() output, never empty
        IF field = "fetched_at" THEN FALSE ELSE row[field] = ""

RECURSIVE validate_rows(_, _)
validate_rows(rows, ids) ==
    IF rows = <<>> THEN ""
    ELSE IF row_missing_field(Head(rows)) THEN "missing required field"
    ELSE IF Head(rows).id \in ids THEN "Duplicate id"
    ELSE validate_rows(Tail(rows), ids \cup {Head(rows).id})

validate_csv(file) ==
    IF ~file.exists THEN "CSV not found"
    ELSE IF file.header # SCHEMA THEN "CSV header mismatch"
    ELSE validate_rows(file.rows, {})

(***************************************************************************)
(* gdelt_news ingest_feed                                                  *)
(***************************************************************************)
\* One GET of fetch_json(params, session) under @retry, and what ingest_feed
\* does with the result up to the item loop.
GdeltGet(response) ==
    LET n == attempts + 1
        outcome == fetch_json(response)
        retryable == outcome.raised /\ gdelt_should_retry(outcome.exc)
        decision == Retrying(outcome, retryable, n)
    IN /\ pc = "fetch"
       /\ target = "api"
       /\ last' = [target |-> "api", status |-> response.status, n |-> n,
                   decision |-> decision]
       /\ UNCHANGED <<calls, handling>>
       /\ CASE decision = "retry" ->
                 /\ attempts' = n
                 /\ UNCHANGED <<runVars, idx, pc, target, loopVars, txn, seen, csv,
                                total_new, exit_status, log>>
            [] decision = "retry_error" ->
                 /\ FeedRaises(RetryError(outcome.exc))
                 /\ UNCHANGED <<loopVars, seen, csv>>
            [] decision = "raise" ->
                 /\ FeedRaises(outcome.exc)
                 /\ UNCHANGED <<loopVars, seen, csv>>
            [] decision = "return" /\ outcome.value.is_none ->
                 \* payload is None: "Failed to fetch", return 0
                 /\ UNCHANGED <<loopVars, seen, csv, txn>>
                 /\ FeedReturns(0)
            [] decision = "return" /\ ~outcome.value.is_none ->
                 /\ items' = parse_articles(outcome.value)
                 /\ parsed' = items'
                 /\ csv' = [csv EXCEPT !["gdelt"] = ensure_csv(@)]
                 /\ pos' = 1
                 /\ new_rows' = <<>>
                 /\ new_count' = 0
                 /\ skipped' = 0
                 /\ source_label' = "api"
                 /\ pc' = "loop"
                 /\ target' = ""
                 /\ attempts' = 0
                 /\ UNCHANGED <<runVars, idx, txn, seen, total_new, exit_status, log>>

\* One iteration of "for article in articles"
GdeltItem ==
    LET article == items[pos]
        link == article.url
        title == stripped_title[article.title.val]
        normalized_link == gdelt_normalized[link.val]
        feed_id == compute_id(normalized_link)
    IN /\ pc = "loop"
       /\ driver = "gdelt"
       /\ pos <= Len(items)
       /\ last' = NoGet
       /\ UNCHANGED <<calls, handling, seen, csv>>
       /\ IF article.title.tag = "null"
          THEN \* None.strip()
               /\ FeedRaises(AttributeError)
               /\ UNCHANGED loopVars
          ELSE /\ pos' = pos + 1
               /\ UNCHANGED <<runVars, idx, pc, target, attempts, source_label, parsed,
                              items, total_new, exit_status, log>>
               /\ IF ~Truthy(link) \/ title = ""
                  THEN UNCHANGED <<txn, new_rows, new_count, skipped>>
                  ELSE IF existing(seen, txn, feed_id)
                  THEN /\ skipped' = skipped + 1
                       /\ UNCHANGED <<txn, new_rows, new_count>>
                  ELSE /\ txn' = insert_seen_id(txn, feed_id)
                       /\ new_rows' = Append(new_rows,
                              Row(feed_id, title, normalized_link,
                                  IF article.seendate.tag = "absent" THEN ""
                                  ELSE article.seendate.val,
                                  article_source(article),
                                  IF article.snippet.tag = "absent" THEN ""
                                  ELSE article.snippet.val))
                       /\ new_count' = new_count + 1
                       /\ UNCHANGED skipped

(***************************************************************************)
(* Both ingest_feed functions: commit and append                           *)
(***************************************************************************)
\* The item loop is over: conn.commit() and the end of the with block; with
\* an empty batch ingest_feed logs the counts and returns.
CommitAlwaysAppends ==
    /\ pc = "loop"
    /\ pos > Len(items)
    /\ seen' = seen \cup txn
    /\ txn' = {}
    /\ last' = NoGet
    /\ handling' = NoExc
    /\ pc' = "append"
    /\ UNCHANGED <<calls, csv, loopVars, runVars, idx, target, attempts, total_new,
                   exit_status, log>>

Commit ==
    /\ pc = "loop"
    /\ pos > Len(items)
    /\ seen' = seen \cup txn
    /\ txn' = {}
    /\ last' = NoGet
    /\ handling' = NoExc
    /\ UNCHANGED <<calls, csv, loopVars>>
    /\ IF new_rows # <<>>
       THEN /\ pc' = "append"
            /\ UNCHANGED <<runVars, idx, target, attempts, total_new, exit_status, log>>
       ELSE FeedReturns(new_count)

\* append_rows(out_csv, new_rows) succeeds; ingest_feed returns new_count
AppendRows ==
    /\ pc = "append"
    /\ csv' = [csv EXCEPT ![driver] = append_rows(@, new_rows)]
    /\ calls' = [calls EXCEPT !["append"] = @ + 1]
    /\ last' = NoGet
    /\ UNCHANGED <<handling, loopVars, seen, txn>>
    /\ FeedReturns(new_count)

\* append_rows fails with an OSError after writing the first k rows
AppendFails(k) ==
    /\ pc = "append"
    /\ csv' = [csv EXCEPT ![driver] = append_rows(@, SubSeq(new_rows, 1, k))]
    /\ calls' = [calls EXCEPT !["append"] = @ + 1]
    /\ last' = NoGet
    /\ UNCHANGED <<handling, loopVars, seen>>
    /\ FeedRaises(OSError)

(***************************************************************************)
(* yahoo_finance ingest_feed                                               *)
(***************************************************************************)
\* ingest_feed from the parsed item list to the item loop: the cap, ensure_db
\* and ensure_csv
YahooEnterLoop(parsed_items, label) ==
    /\ items' = cap_items(parsed_items, max_items)
    /\ parsed' = items'
    /\ source_label' = label
    /\ csv' = [csv EXCEPT !["yahoo"] = ensure_csv(@)]
    /\ pos' = 1
    /\ new_rows' = <<>>
    /\ new_count' = 0
    /\ skipped' = 0
    /\ pc' = "loop"
    /\ target' = ""
    /\ attempts' = 0
    /\ UNCHANGED <<runVars, idx, txn, seen, total_new, exit_status, log, calls>>

\* the except clauses of ingest_feed around the primary fetch: SkipUrl, and an
\* HTTPError with a 4xx response, go to the fallback URL
primary_falls_back_always(exc) == TRUE

primary_falls_back(exc) ==
    \/ exc.type = "SkipUrl"
    \/ /\ exc.type = "HTTPError"
       /\ exc.has_response
       /\ 400 <= exc.status /\ exc.status < 500

\* One GET of fetch_url(url, session) for the per-ticker page
YahooPrimaryGet(response) ==
    LET n == attempts + 1
        outcome == fetch_url(response)
        retryable == outcome.raised /\ yahoo_should_retry(outcome.exc)
        decision == Retrying(outcome, retryable, n)
        exc == IF decision = "retry_error" THEN RetryError(outcome.exc) ELSE outcome.exc
    IN /\ pc = "fetch"
       /\ target = "primary"
       /\ last' = [target |-> "primary", status |-> response.status, n |-> n,
                   decision |-> decision]
       /\ handling' = IF decision \in {"raise", "retry_error"} /\ primary_falls_back(exc)
                      THEN exc ELSE NoExc
       /\ CASE decision = "retry" ->
                 /\ attempts' = n
                 /\ UNCHANGED <<runVars, idx, pc, target, loopVars, txn, seen, csv,
                                total_new, exit_status, log, calls>>
            [] decision = "return" ->
                 YahooEnterLoop(parsed_page[outcome.value][BASE_URL(feed.ticker)],
                                "primary")
            [] decision \in {"raise", "retry_error"} /\ primary_falls_back(exc) ->
                 /\ target' = "fallback"
                 /\ attempts' = 0
                 /\ calls' = [calls EXCEPT !["fallback"] = @ + 1]
                 /\ UNCHANGED <<runVars, idx, pc, loopVars, txn, seen, csv, total_new,
                                exit_status, log>>
            [] decision \in {"raise", "retry_error"} /\ ~primary_falls_back(exc) ->
                 /\ FeedRaises(exc)
                 /\ UNCHANGED <<loopVars, seen, csv, calls>>

\* One GET of fetch_url(FALLBACK_URL, session), inside the except clause
YahooFallbackGet(response) ==
    LET n == attempts + 1
        outcome == fetch_url(response)
        retryable == outcome.raised /\ yahoo_should_retry(outcome.exc)
        decision == Retrying(outcome, retryable, n)
        exc == IF decision = "retry_error" THEN RetryError(outcome.exc) ELSE outcome.exc
    IN /\ pc = "fetch"
       /\ target = "fallback"
       /\ last' = [target |-> "fallback", status |-> response.status, n |-> n,
                   decision |-> decision]
       /\ UNCHANGED handling
       /\ CASE decision = "retry" ->
                 /\ attempts' = n
                 /\ UNCHANGED <<runVars, idx, pc, target, loopVars, txn, seen, csv,
                                total_new, exit_status, log, calls>>
            [] decision = "return" ->
                 YahooEnterLoop(fallback_items[outcome.value][feed], "fallback")
            [] decision \in {"raise", "retry_error"} ->
                 /\ FeedRaises(exc)
                 /\ UNCHANGED <<loopVars, seen, csv, calls>>

\* insert_seen_id, new_rows.append and new_count += 1 for the item of the
\* current iteration, carrying the summary enrich_summary left it with
YahooRecord(item) ==
    LET normalized_link == yahoo_normalized[item.link][BASE_URL(feed.ticker)]
        feed_id == compute_id(normalized_link)
    IN /\ items' = [items EXCEPT ![pos] = item]
       /\ txn' = insert_seen_id(txn, feed_id)
       /\ new_rows' = Append(new_rows,
              Row(feed_id, item.title, normalized_link, item.published, item.source,
                  item.summary))
       /\ new_count' = new_count + 1
       /\ pos' = pos + 1
       /\ UNCHANGED <<source_label, parsed, skipped>>

\* One iteration of "for item in items", up to the enrichment fetch when the
\* item is new and has no summary
YahooItem ==
    LET item == items[pos]
        normalized_link == yahoo_normalized[item.link][BASE_URL(feed.ticker)]
        feed_id == compute_id(normalized_link)
    IN /\ pc = "loop"
       /\ driver = "yahoo"
       /\ pos <= Len(items)
       /\ last' = NoGet
       /\ handling' = NoExc
       /\ UNCHANGED <<runVars, idx, seen, csv, total_new, exit_status, log>>
       /\ IF existing(seen, txn, feed_id)
          THEN /\ skipped' = skipped + 1
               /\ pos' = pos + 1
               /\ UNCHANGED <<pc, target, attempts, calls, txn, source_label, parsed,
                              items, new_rows, new_count>>
          ELSE IF item.summary # ""
          THEN \* enrich_summary returns the item as it is
               /\ YahooRecord(item)
               /\ UNCHANGED <<pc, target, attempts, calls>>
          ELSE \* enrich_summary calls fetch_url(item.link, session)
               /\ pc' = "fetch"
               /\ target' = "enrich"
               /\ attempts' = 0
               /\ calls' = [calls EXCEPT !["enrich"] = @ + 1]
               /\ UNCHANGED <<loopVars, txn>>

\* enrich_summary's except clause: requests.RequestException
enrich_catches(exc) == IsRequestException(exc)

\* One GET of fetch_url(item.link, session) in enrich_summary, and the rest of
\* the loop iteration when the fetch is over
YahooEnrichGet(response) ==
    LET n == attempts + 1
        outcome == fetch_url(response)
        retryable == outcome.raised /\ yahoo_should_retry(outcome.exc)
        decision == Retrying(outcome, retryable, n)
        exc == IF decision = "retry_error" THEN RetryError(outcome.exc) ELSE outcome.exc
        item == items[pos]
    IN /\ pc = "fetch"
       /\ target = "enrich"
       /\ last' = [target |-> "enrich", status |-> response.status, n |-> n,
                   decision |-> decision]
       /\ UNCHANGED <<calls, handling, seen, csv>>
       /\ CASE decision = "retry" ->
                 /\ attempts' = n
                 /\ UNCHANGED <<runVars, idx, pc, target, loopVars, txn, total_new,
                                exit_status, log>>
            [] decision = "return" ->
                 /\ YahooRecord(IF outcome.value.meta # ""
                                THEN [item EXCEPT !.summary = enriched_summary[outcome.value]]
                                ELSE item)
                 /\ pc' = "loop"
                 /\ target' = ""
                 /\ attempts' = 0
                 /\ UNCHANGED <<runVars, idx, total_new, exit_status, log>>
            [] decision \in {"raise", "retry_error"} /\ enrich_catches(exc) ->
                 \* "Failed to fetch article for summary": the item is kept as it is
                 /\ YahooRecord(item)
                 /\ pc' = "loop"
                 /\ target' = ""
                 /\ attempts' = 0
                 /\ UNCHANGED <<runVars, idx, total_new, exit_status, log>>
            [] decision \in {"raise", "retry_error"} /\ ~enrich_catches(exc) ->
                 /\ UNCHANGED loopVars
                 /\ FeedRaises(exc)

(***************************************************************************)
(* Specification                                                           *)
(***************************************************************************)
Next ==
    \/ \E argv \in GdeltInvocations : StartRun("gdelt", argv)
    \/ \E argv \in YahooInvocations : StartRun("yahoo", argv)
    \/ BeginFeed
    \/ \E response \in ApiResponses : GdeltGet(response)
    \/ GdeltItem
    \/ \E response \in PageResponses : YahooPrimaryGet(response)
    \/ \E response \in PageResponses : YahooFallbackGet(response)
    \/ YahooItem
    \/ \E response \in ArticleResponses : YahooEnrichGet(response)
    \/ Commit
    \/ AppendRows
    \/ \E k \in 0..(Len(new_rows) - 1) : AppendFails(k)
    \/ FinishRun

Spec == Init /\ [][Next]_vars

(***************************************************************************)
(* The canonicalizer on its own: normalize_link of either driver applied   *)
(* to a raw link, to its own result, and to a link that differs from the   *)
(* raw link in query string and fragment only                              *)
(***************************************************************************)
\* raw links up to the query string: relative and absolute, with and without
\* scheme and host, with an empty host before the path
LinkStems ==
    {"", "/news/a", "news/a", "https://x.com/news/a", "HTTPS://x.com",
     "//x.com/news/a", "/////news/a", "rss://///news/a", "mailto:news/a"}

\* query strings and fragments
LinkSuffixes == {"", "?", "?q=1", "#top", "?q=1#top", "#a?b"}

\* the page URLs yahoo_finance normalizes against: parse_news_items uses the
\* URL of the page parsed, ingest_feed the per-ticker URL
CanonBases == {BASE_URL("BK"), FALLBACK_URL}

\* normalize_link of driver d
canonicalize(d, link, base_url) ==
    IF d = "gdelt" THEN gdelt_normalize_link(link) ELSE yahoo_normalize_link(link, base_url)

mainVars == <<runs, driver, args, feeds, max_items, idx, pc, target, attempts, last, calls,
              handling, source_label, parsed, items, pos, txn, new_rows, new_count,
              skipped, seen, csv, total_new, exit_status, log, prev>>

CanonInit ==
    /\ runs = 0
    /\ driver = ""
    /\ args = NoArgs
    /\ feeds = <<>>
    /\ max_items = DefaultMaxItems
    /\ idx = 0
    /\ pc = "idle"
    /\ target = ""
    /\ attempts = 0
    /\ last = NoGet
    /\ calls = [t \in Callees |-> 0]
    /\ handling = NoExc
    /\ source_label = ""
    /\ parsed = <<>>
    /\ items = <<>>
    /\ pos = 0
    /\ txn = {}
    /\ new_rows = <<>>
    /\ new_count = 0
    /\ skipped = 0
    /\ seen = {}
    /\ csv = [d \in {"gdelt", "yahoo"} |-> NoFile]
    /\ total_new = 0
    /\ exit_status = 0
    /\ log = <<>>
    /\ prev = NoRun
    /\ conc = NoConc
    /\ \E stem \in LinkStems, suffix \in LinkSuffixes, other_suffix \in LinkSuffixes :
          \/ canon = [NoCanon EXCEPT !.driver = "gdelt",
                                     !.link = stem \o suffix,
                                     !.variant = stem \o other_suffix]
          \/ \E base_url \in CanonBases, url \in CanonBases :
                canon = [NoCanon EXCEPT !.driver = "yahoo",
                                        !.base_url = base_url,
                                        !.url = url,
                                        !.link = stem \o suffix,
                                        !.variant = stem \o other_suffix]

\* normalize_link(link), as parse_news_items and gdelt_news ingest_feed call it
Canonicalize ==
    /\ canon.applied = 0
    /\ canon' = [canon EXCEPT !.once = canonicalize(canon.driver, canon.link, canon.base_url),
                              !.applied = 1]
    /\ UNCHANGED <<mainVars, conc>>

\* normalize_link of the result, as yahoo_finance ingest_feed calls it on
\* item.link with the per-ticker URL
CanonicalizeAgain ==
    /\ canon.applied = 1
    /\ canon' = [canon EXCEPT !.twice = canonicalize(canon.driver, canon.once, canon.url),
                              !.applied = 2]
    /\ UNCHANGED <<mainVars, conc>>

\* normalize_link of the link with the other query string and fragment
CanonicalizeVariant ==
    /\ canon.applied = 2
    /\ canon' = [canon EXCEPT !.other = canonicalize(canon.driver, canon.variant, canon.base_url),
                              !.applied = 3]
    /\ UNCHANGED <<mainVars, conc>>

CanonNext == Canonicalize \/ CanonicalizeAgain \/ CanonicalizeVariant

SpecCanon == CanonInit /\ [][CanonNext]_vars

(***************************************************************************)
(* Two processes at once: the with block of gdelt_news ingest_feed and the *)
(* with block of yahoo_finance ingest_feed, each on its own connection to  *)
(* the same seen_feed_ids table and with its own dataset.  sqlite3 opens a *)
(* transaction at a connection's first INSERT and gives the database's     *)
(* write lock to one connection at a time; a SELECT outside a transaction  *)
(* reads the committed rows.                                               *)
(***************************************************************************)
\* Each process is at the top of its item loop with a list of canonical links.
ConcInit ==
    /\ runs = 0
    /\ driver = ""
    /\ args = NoArgs
    /\ feeds = <<>>
    /\ max_items = DefaultMaxItems
    /\ idx = 0
    /\ pc = "idle"
    /\ target = ""
    /\ attempts = 0
    /\ last = NoGet
    /\ calls = [t \in Callees |-> 0]
    /\ handling = NoExc
    /\ source_label = ""
    /\ parsed = <<>>
    /\ items = <<>>
    /\ pos = 0
    /\ txn = {}
    /\ new_rows = <<>>
    /\ new_count = 0
    /\ skipped = 0
    /\ seen = {}
    /\ csv = [d \in {"gdelt", "yahoo"} |-> NoFile]
    /\ total_new = 0
    /\ exit_status = 0
    /\ log = <<>>
    /\ prev = NoRun
    /\ canon = NoCanon
    /\ \E gdelt_links, yahoo_links \in
              UNION {[1..n -> {AcmeUrl, "https://x.com/news/bny"}] : n \in 1..2} :
          conc = [NoConc EXCEPT
                    !.proc["gdelt"] = [@ EXCEPT !.pc = "check", !.items = gdelt_links,
                                                !.pos = 1],
                    !.proc["yahoo"] = [@ EXCEPT !.pc = "check", !.items = yahoo_links,
                                                !.pos = 1]]

\* The head of one iteration of process p: compute_id and the SELECT; a link
\* found is counted as skipped, a link not found goes on to its INSERT (in
\* yahoo_finance, after enrich_summary)
ConcCheck(p) ==
    LET me == conc.proc[p]
        feed_id == compute_id(me.items[me.pos])
    IN /\ me.pc = "check"
       /\ me.pos <= Len(me.items)
       /\ conc' = [conc EXCEPT !.proc[p] =
                     IF existing(conc.seen, me.txn, feed_id)
                     THEN [me EXCEPT !.skipped = @ + 1, !.pos = @ + 1]
                     ELSE [me EXCEPT !.pc = "insert"]]
       /\ UNCHANGED <<mainVars, canon>>

\* The rest of the iteration: insert_seen_id and new_rows.append.  The INSERT
\* takes the write lock; INSERT OR IGNORE of an id committed since the SELECT
\* changes nothing and raises nothing, and the row is appended to new_rows all
\* the same.  While the other connection holds the lock the INSERT waits, and
\* past the connection's timeout it raises OperationalError: the with block
\* rolls back and ingest_feed is left with nothing appended.
ConcInsert(p) ==
    LET me == conc.proc[p]
        feed_id == compute_id(me.items[me.pos])
    IN /\ me.pc = "insert"
       /\ \/ /\ conc.writer \in {"", p}
             /\ conc' = [conc EXCEPT
                           !.writer = p,
                           !.proc[p] = [me EXCEPT !.txn = insert_seen_id(@, feed_id),
                                                  !.new_rows = Append(@, feed_id),
                                                  !.pos = @ + 1,
                                                  !.pc = "check"]]
          \/ /\ conc.writer \notin {"", p}
             /\ conc' = [conc EXCEPT !.proc[p] = [me EXCEPT !.txn = {}, !.pc = "failed"]]
       /\ UNCHANGED <<mainVars, canon>>

\* conn.commit() after the loop of process p, and the end of the with block
ConcCommit(p) ==
    LET me == conc.proc[p]
    IN /\ me.pc = "check"
       /\ me.pos > Len(me.items)
       /\ conc' = [conc EXCEPT
                     !.seen = @ \cup me.txn,
                     !.writer = IF @ = p THEN "" ELSE @,
                     !.proc[p] = [me EXCEPT !.txn = {},
                                            !.pc = IF me.new_rows # <<>> THEN "append"
                                                   ELSE "done"]]
       /\ UNCHANGED <<mainVars, canon>>

\* if new_rows: append_rows(out_csv, new_rows), on the dataset of process p
ConcAppend(p) ==
    LET me == conc.proc[p]
    IN /\ me.pc = "append"
       /\ conc' = [conc EXCEPT !.proc[p] = [me EXCEPT !.rows = @ \o me.new_rows,
                                                      !.pc = "done"]]
       /\ UNCHANGED <<mainVars, canon>>

ConcNext ==
    \E p \in {"gdelt", "yahoo"} :
        \/ ConcCheck(p)
        \/ ConcInsert(p)
        \/ ConcCommit(p)
        \/ ConcAppend(p)

SpecConcurrent == ConcInit /\ [][ConcNext]_vars

(***************************************************************************)
(* Properties                                                              *)
(***************************************************************************)
\* the rows of both datasets
AllRows == csv["gdelt"].rows \o csv["yahoo"].rows

\* the feed of this run that ended last, as main saw it
LastLogged == log[Len(log)]

\* a feed of the previous run and a feed of this run with the same driver, the
\* same configuration and the same upstream content, both returning normally
SameFeedAgain(i, j) ==
    /\ prev.driver = driver
    /\ i \in DOMAIN prev.log
    /\ j \in DOMAIN log
    /\ prev.feeds[i] = feeds[j]
    /\ prev.log[i].outcome = "ok"
    /\ log[j].outcome = "ok"
    /\ prev.log[i].src = log[j].src
    /\ prev.log[i].items = log[j].items

\* C1: in both drivers, when ingest_feed fails for one feed, the failure is
\* caught and every later feed of the list is still processed in the same run:
\* a run that ends after a feed failed has been through all of its feeds.
C1_LaterFeedsStillProcessed ==
    (pc = "exit" /\ \E i \in DOMAIN log : log[i].outcome # "ok")
        => Len(log) = Len(feeds)

\* C2: for every id, over any sequence of runs of either driver on one seen-set
\* store, at most one row with that id is ever in the datasets, validate_csv
\* never finds a duplicate id, and a row is only ever made for an id that is
\* not in the seen-set (committed or inserted on the open connection).
C2_AtMostOneRowPerId ==
    /\ [](/\ \A i, j \in DOMAIN AllRows : AllRows[i].id = AllRows[j].id => i = j
          /\ \A d \in DOMAIN csv : validate_csv(csv[d]) # "Duplicate id")
    /\ [][Len(new_rows') > Len(new_rows)
            => new_rows'[Len(new_rows')].id \notin (seen \cup txn)]_vars

\* C2 witness: a yahoo_finance run passes over an item (skipped) whose id a
\* gdelt_news run has already put in the dataset.
C2_SeenItemSkipped ==
    /\ pc = "loop"
    /\ driver = "yahoo"
    /\ pos > 1
    /\ skipped > 0
    /\ \E i \in DOMAIN csv["gdelt"].rows :
          csv["gdelt"].rows[i].id =
              compute_id(yahoo_normalized[items[pos - 1].link][BASE_URL(feed.ticker)])

\* C3 as stated: a feed ingested again with the upstream unchanged yields zero
\* new items, and its skipped count equals the first run's new-item count.
C3_SkippedEqualsFirstNew ==
    \A i \in DOMAIN prev.log, j \in DOMAIN log :
        SameFeedAgain(i, j)
            => log[j].new = 0 /\ log[j].skipped = prev.log[i].new

\* C3 amended: a feed ingested again with the upstream unchanged yields zero
\* new items, and its skipped count equals the first run's new-item count plus
\* the first run's skipped count.
C3_SkippedEqualsFirstNewPlusSkipped ==
    \A i \in DOMAIN prev.log, j \in DOMAIN log :
        SameFeedAgain(i, j)
            => /\ log[j].new = 0
               /\ log[j].skipped = prev.log[i].new + prev.log[i].skipped

\* C3 witness: the second ingestion of a feed whose first ingestion made new
\* rows and skipped items too.
C3_SecondRunOfFeed ==
    \E i \in DOMAIN prev.log, j \in DOMAIN log :
        /\ SameFeedAgain(i, j)
        /\ prev.log[i].new > 0
        /\ prev.log[i].skipped > 0

\* C4: when the append of a feed's batch has failed, none of the batch's ids is
\* in the seen-set: every id in the seen-set has its row in the dataset.
C4_SeenIdsHaveRows ==
    (log # <<>> /\ LastLogged.outcome = "OSError")
        => \A id \in seen : \E i \in DOMAIN AllRows : AllRows[i].id = id

\* the text matches_query reads of an item, and the terms it looks for
ItemText(item) == Lower(item.title \o " " \o item.summary)

FeedTerms(f) == {Lower(f.ticker)} \cup extract_query_terms(f.query)

\* whether an item of the fallback page holds the ticker or a quoted phrase
HoldsTerm ==
    [item \in UNION {Range(parsed_page[html][FALLBACK_URL]) : html \in Pages} |->
        [f \in YahooFeeds |-> \E term \in FeedTerms(f) : Contains(ItemText(item), term)]]

\* the rows of the batch come from items that hold the ticker or a quoted phrase
BatchMatches ==
    /\ \A i \in DOMAIN parsed : HoldsTerm[parsed[i]][feed]
    /\ \A k \in DOMAIN new_rows :
          \E i \in DOMAIN parsed : /\ parsed[i].title = new_rows[k].title
                                   /\ new_rows[k].id =
                                        compute_id(yahoo_normalized[parsed[i].link]
                                                                   [BASE_URL(feed.ticker)])

\* C5 as stated: when the primary per-ticker page returns 404, exactly one GET
\* is issued to the fallback URL for that feed.
C5_ExactlyOneFallbackGet ==
    (handling.type = "SkipUrl" /\ last.target = "fallback" /\ last.decision # "retry")
        => last.n = 1

\* C5 amended: when the primary per-ticker page returns 404 (or another 4xx),
\* exactly one fetch of the fallback URL is made for that feed, which issues at
\* least one and at most 3 GETs, and only fallback items whose title and
\* summary hold the ticker or a double-quoted phrase of the query become rows.
C5_OneFallbackFetch ==
    /\ handling # NoExc => calls["fallback"] = 1 /\ attempts < StopAfterAttempt
    /\ last.target = "fallback" => calls["fallback"] = 1 /\ last.n \in 1..StopAfterAttempt
    /\ calls["fallback"] <= 1
    /\ source_label = "fallback" => calls["fallback"] = 1 /\ BatchMatches

\* C5 witness: the primary page returned 404, the fallback page came with the
\* second GET to the fallback URL, and the filter kept one item of it.
C5_FallbackAfter404 ==
    /\ handling.type = "SkipUrl"
    /\ last.target = "fallback"
    /\ last.n = 2
    /\ last.decision = "return"
    /\ source_label = "fallback"
    /\ Len(parsed) = 1

\* C6: in both fetchers a 429 response, a 5xx response and a connection failure
\* are retried while fewer than 3 attempts have been made.
C6_RetryableIsRetried ==
    (last.target # "" /\ last.status \in {0, 429, 503} /\ last.n < StopAfterAttempt)
        => last.decision = "retry"

\* C7: a fetch call never issues more than 3 GETs; a third retryable failure
\* stops the fetch and reaches main as the feed's failure; an outcome that is
\* not retryable (a page, a 403, a 404) ends the fetch with the attempt that
\* produced it.
C7_AtMostThreeAttempts ==
    /\ attempts < StopAfterAttempt
    /\ last.n <= StopAfterAttempt
    /\ last.decision = "retry"
          => last.n < StopAfterAttempt /\ target = last.target /\ attempts = last.n
    /\ (last.n = StopAfterAttempt /\ last.status \in {0, 503})
          => /\ last.decision = "retry_error"
             /\ pc \in {"next", "exit"}
             /\ LastLogged.outcome = "RetryError"
    /\ last.status \in {200, 403, 404}
          => last.decision \in {"return", "raise"} /\ attempts = 0 /\ target # last.target

\* C7 witness: the third GET of a fetch failed with a retryable outcome and the
\* feed ended with the error.
C7_ThirdAttemptFailed ==
    /\ last.n = StopAfterAttempt
    /\ last.decision = "retry_error"
    /\ LastLogged.outcome = "RetryError"

\* C8: any failure of the fetch of an item's own link leaves the item with an
\* empty summary and the item is recorded as a new row; the feed goes on.
C8_EnrichFailureKeepsItem ==
    (last.target = "enrich" /\ last.decision \in {"raise", "retry_error"})
        => /\ pc = "loop"
           /\ new_rows # <<>>
           /\ new_rows[Len(new_rows)].summary = ""
           /\ new_rows[Len(new_rows)].title = items[pos - 1].title

\* C9: after a run in which feeds failed and the feed loop went through every
\* feed, the process ends with exit status 0.
C9_FeedFailureKeepsExitStatus ==
    (pc = "exit" /\ feeds # <<>> /\ Len(log) = Len(feeds)
        /\ \E i \in DOMAIN log : log[i].outcome # "ok")
        => exit_status = 0

\* an article of the GDELT payload without a usable url or title
MissingRequiredField(article) ==
    \/ ~Truthy(article.url)
    \/ article.title.tag # "str"
    \/ stripped_title[article.title.val] = ""

\* C10: in gdelt_news an article whose url or title is missing is dropped: it
\* is counted neither new nor skipped, the loop goes on to the next article and
\* the feed is not aborted.
C10_MissingFieldDropsItem ==
    [][(pc = "loop" /\ driver = "gdelt" /\ pos <= Len(items)
            /\ MissingRequiredField(items[pos]))
          => /\ pc' = "loop"
             /\ pos' = pos + 1
             /\ new_count' = new_count
             /\ skipped' = skipped]_vars

\* the 4xx statuses
ClientErrors == 400..499

\* the rows of the datasets, by driver
DatasetRows == [d \in DOMAIN csv |-> csv[d].rows]

\* C11: in yahoo_finance the fallback URL is fetched if and only if the fetch
\* of the per-ticker page ended with a 4xx status (404 included); when that
\* fetch ends with a 5xx or a connection failure after the retries, no fallback
\* fetch is made, the feed fails, and the seen-set and the dataset are as they
\* were.
C11_FallbackIffClientError ==
    [][/\ calls'["fallback"] > calls["fallback"]
            <=> /\ pc = "fetch" /\ target = "primary"
                /\ last'.target = "primary" /\ last'.status \in ClientErrors
       /\ last'.target = "fallback" => calls["fallback"] = 1 /\ handling.status \in ClientErrors
       /\ (last'.target = "primary" /\ last'.status \in {0, 503}
              /\ last'.decision # "retry")
            => /\ last'.decision = "retry_error"
               /\ calls'["fallback"] = 0
               /\ target' = ""
               /\ pc' = "exit"
               /\ log' = Append(log, [outcome |-> "RetryError", new |-> 0, skipped |-> 0,
                                       src |-> "", items |-> <<>>])
               /\ seen' = seen
               /\ txn' = {}
               /\ csv' = csv]_vars

\* C11 witness: in a second run, on a seen-set store and a dataset that are not
\* empty, the third GET of the per-ticker page failed with a 503 and the feed
\* failed without a fallback fetch.
C11_PrimaryExhausted ==
    /\ runs = 2
    /\ seen # {}
    /\ csv["yahoo"].rows # <<>>
    /\ last = [target |-> "primary", status |-> 503, n |-> StopAfterAttempt,
               decision |-> "retry_error"]
    /\ calls["fallback"] = 0
    /\ LastLogged.outcome = "RetryError"

\* C12: in gdelt_news a 4xx response other than 429 is not retried and does not
\* raise: fetch_json returns None with that attempt, the feed reports 0 new
\* items, the seen-set and the dataset are unchanged, and main goes on to the
\* next feed.
C12_ClientErrorIsNoResult ==
    [][(pc = "fetch" /\ target = "api" /\ last'.status \in ClientErrors \ {429})
          => /\ last'.decision = "return"
             /\ last'.n = attempts + 1
             /\ attempts' = 0
             /\ target' = ""
             /\ log' = Append(log, [outcome |-> "ok", new |-> 0, skipped |-> 0,
                                     src |-> "", items |-> <<>>])
             /\ total_new' = total_new
             /\ seen' = seen
             /\ txn' = txn
             /\ csv' = csv
             /\ exit_status' = exit_status
             /\ idx' = idx
             /\ pc' = "next"]_vars

\* C12 witness: in a second run, the API answered 403 to the first GET for the
\* first feed of two, and main is about to begin the second feed.
C12_ForbiddenThenNextFeed ==
    /\ runs = 2
    /\ seen # {}
    /\ last = [target |-> "api", status |-> 403, n |-> 1, decision |-> "return"]
    /\ pc = "next"
    /\ idx = 1
    /\ Len(feeds) = 2
    /\ LastLogged.new = 0

\* C13: every row appended to a dataset by either driver has a non-empty
\* title, a non-empty link, and a link with no query string and no fragment,
\* whatever raw link the item filter accepted (a raw link that is only a query
\* string or a fragment included).
C13_RowsHaveTitleAndCanonicalLink ==
    \A i \in DOMAIN AllRows :
        /\ AllRows[i].title # ""
        /\ AllRows[i].link # ""
        /\ ~Contains(AllRows[i].link, "?")
        /\ ~Contains(AllRows[i].link, "#")

\* main reads the feeds from the configuration file (no --query / --ticker)
LoadsConfig ==
    /\ runs > 0
    /\ IF driver = "gdelt" THEN ~Truthy(args.query) ELSE ~Truthy(args.ticker)

\* a feed definition without query, or for yahoo_finance without ticker
LacksRequiredField(entry) ==
    ~Truthy(entry.query) \/ (driver = "yahoo" /\ ~Truthy(entry.ticker))

InvalidConfig ==
    LoadsConfig /\ \E i \in DOMAIN args.config : LacksRequiredField(args.config[i])

\* C14: when a feed definition of the configuration lacks a required field,
\* the run ends at load time, also when earlier definitions are valid: no feed
\* is begun, no request is issued, and the seen-set and the datasets are what
\* the run found.
C14_InvalidConfigAbortsAtLoad ==
    /\ [](InvalidConfig
            => /\ pc = "exit"
               /\ exit_status = 1
               /\ feeds = <<>>
               /\ idx = 0
               /\ log = <<>>
               /\ last = NoGet
               /\ \A t \in Callees : calls[t] = 0
               /\ txn = {})
    /\ [][InvalidConfig' => seen' = seen /\ csv' = csv]_vars

\* C14 witness: a second run of yahoo_finance, on a seen-set store that is not
\* empty, whose configuration holds a valid feed and then one without ticker.
C14_SecondEntryInvalid ==
    /\ runs = 2
    /\ seen # {}
    /\ driver = "yahoo"
    /\ args.config = <<EntryAcme, EntryNoTicker>>
    /\ ~Truthy(args.ticker)
    /\ pc = "exit"

\* C15: normalize_link of both drivers is idempotent, normalize(normalize(l)) =
\* normalize(l) for every link l, and two links that differ only in query
\* string or fragment have the same canonical link and so the same id.
C15_CanonicalizationIdempotent ==
    /\ canon.applied >= 2 => canon.twice = canon.once
    /\ canon.applied >= 3 => /\ canon.other = canon.once
                             /\ compute_id(canon.other) = compute_id(canon.once)

\* the id the item loop computes for the k-th item
ItemId(k) ==
    IF driver = "gdelt" THEN compute_id(gdelt_normalized[items[k].url.val])
    ELSE compute_id(yahoo_normalized[items[k].link][BASE_URL(feed.ticker)])

\* the k-th item passes the required-field filter of its driver (yahoo_finance
\* filters in parse_news_items, before the loop)
PassesFilter(k) == driver = "yahoo" \/ ~MissingRequiredField(items[k])

\* the item loop is running: the connection is open
InItemLoop == pc = "loop" \/ (pc = "fetch" /\ target = "enrich")

BatchIds == {new_rows[k].id : k \in DOMAIN new_rows}

\* C16: within the item loop of a feed the id of a new item is in the seen-set
\* (on the open connection) before the next item is checked: the batch holds
\* one row per id inserted, and an item whose id an earlier item of the same
\* loop inserted is counted skipped and adds no row.
C16_DuplicateInRunSkipped ==
    /\ [](InItemLoop => /\ BatchIds = txn
                        /\ Cardinality(txn) = Len(new_rows)
                        /\ new_count = Len(new_rows))
    /\ [][(pc = "loop" /\ pos <= Len(items) /\ PassesFilter(pos) /\ ItemId(pos) \in txn)
            => /\ skipped' = skipped + 1
               /\ new_count' = new_count
               /\ new_rows' = new_rows
               /\ txn' = txn
               /\ pos' = pos + 1
               /\ pc' = "loop"]_vars

\* C16 witness: on an empty seen-set store, the second article of a GDELT
\* payload had the canonical link of the first: one new, one skipped.
C16_SecondOfPairSkipped ==
    /\ driver = "gdelt"
    /\ pc = "loop"
    /\ seen = {}
    /\ pos = 3
    /\ ItemId(1) = ItemId(2)
    /\ items[1].url # items[2].url
    /\ new_count = 1
    /\ skipped = 1
    /\ Len(new_rows) = 1

\* C17: for each feed append_rows is called at most once per run, only after
\* every item of the feed has been checked and the inserts have been committed,
\* and not at all when the batch of new rows is empty.
C17_OneAppendAfterCommit ==
    /\ [](/\ calls["append"] <= 1
          /\ pc = "append" => new_rows # <<>> /\ calls["append"] = 0)
    /\ [][(DatasetRows' # DatasetRows \/ calls'["append"] > calls["append"])
            => /\ pc = "append"
               /\ calls["append"] = 0
               /\ new_rows # <<>>
               /\ pos > Len(items)
               /\ txn = {}
               /\ BatchIds \subseteq seen
               /\ pc' # "append"]_vars
    /\ [][(pc = "loop" /\ pos > Len(items) /\ new_rows = <<>>)
            => pc' = "next" /\ calls' = calls /\ csv' = csv]_vars

\* C17 witness: a feed that skipped one item and found one new has returned
\* after its one append.
C17_AppendedOnce ==
    /\ pc = "next"
    /\ calls["append"] = 1
    /\ LastLogged.outcome = "ok"
    /\ LastLogged.new = 1
    /\ LastLogged.skipped = 1
    /\ csv[driver].rows # <<>>

\* C18: in yahoo_finance the items that reach the item loop of a feed are never
\* more than max_items, so new + skipped <= max_items; they are the first items
\* of the page in page order (of the matching items, when the fallback page
\* was used).
C18_AtMostMaxItems ==
    (driver = "yahoo" /\ (InItemLoop \/ pc = "append"))
        => /\ \A k \in DOMAIN items : k <= max_items
           /\ new_count + skipped > 0 => new_count + skipped <= max_items

\* C19: when the item loop of a feed is interrupted by an exception after new
\* items were inserted into the seen-set, the seen-set and the dataset rows
\* are what they were when the feed started: nothing changed them up to the
\* failure, the uncommitted inserts are rolled back and no row of the feed is
\* appended.
C19_FailedLoopLeavesNoTrace ==
    /\ [](InItemLoop => /\ txn \cap seen = {}
                        /\ \A i \in DOMAIN AllRows : AllRows[i].id \notin txn)
    /\ [][(pc = "fetch" \/ (pc = "loop" /\ pos <= Len(items)))
            => seen' = seen /\ DatasetRows' = DatasetRows]_vars
    /\ [][(InItemLoop /\ Len(log') > Len(log) /\ log'[Len(log')].outcome # "ok")
            => /\ txn' = {}
               /\ seen' = seen
               /\ DatasetRows' = DatasetRows
               /\ log'[Len(log')].new = 0
               /\ total_new' = total_new
               /\ pc' # "append"]_vars

\* C19 witness: a yahoo_finance feed inserted the id of one new item, and the
\* fetch of the next item's own link, answered 404, ended the feed: the id is
\* not in the seen-set and no row carries it.
C19_EnrichmentAbortsFeed ==
    /\ driver = "yahoo"
    /\ last.target = "enrich"
    /\ last.status = 404
    /\ LastLogged.outcome = "SkipUrl"
    /\ new_count = 1
    /\ txn = {}
    /\ new_rows[1].id \notin seen
    /\ \A i \in DOMAIN AllRows : AllRows[i].id # new_rows[1].id

\* the items before the k-th that passed the required-field filter
PassedBefore(k) == {j \in 1..(k - 1) : PassesFilter(j)}

\* the sum of the new counts of the feeds logged
RECURSIVE SumNew(_)
SumNew(entries) ==
    IF entries = <<>> THEN 0 ELSE Head(entries).new + SumNew(Tail(entries))

\* ingest_feed returns normally with this step
FeedReturnsNow == Len(log') > Len(log) /\ log'[Len(log')].outcome = "ok"

\* C20: for every feed whose ingest_feed returns normally, the returned count
\* is the number of rows the feed appended to the dataset and the number of
\* ids it added to the seen-set, new + skipped is the number of items that
\* passed the required-field filter, and the run's total is the sum of the new
\* counts of the feeds that did not fail.
C20_CountsAgree ==
    /\ [](/\ total_new = SumNew(log)
          /\ \A i \in DOMAIN log : log[i].outcome # "ok" => log[i].new = 0
          /\ InItemLoop => /\ new_count = Len(new_rows)
                           /\ new_count = Cardinality(txn)
                           /\ txn \cap seen = {}
                           /\ new_count + skipped = Cardinality(PassedBefore(pos))
          /\ pc = "append" => new_count = Len(new_rows))
    /\ [][(pc = "loop" /\ pos > Len(items) /\ seen' # seen)
            => seen' \ seen = txn /\ Cardinality(seen' \ seen) = new_count]_vars
    /\ [][FeedReturnsNow
            => /\ log'[Len(log')].new = new_count
               /\ log'[Len(log')].new + log'[Len(log')].skipped
                     = Cardinality(PassedBefore(Len(items) + 1))
               /\ total_new' = total_new + new_count
               /\ IF pc = "append"
                  THEN /\ DatasetRows'[driver] = DatasetRows[driver] \o new_rows
                       /\ BatchIds \subseteq seen
                       /\ Cardinality(BatchIds) = new_count
                  ELSE DatasetRows' = DatasetRows /\ new_count = 0]_vars

\* C20 witness: a gdelt_news run has ended whose first feed returned one new
\* and one skipped item and whose second feed failed: the total is 1.
C20_TotalOfMixedRun ==
    /\ driver = "gdelt"
    /\ pc = "exit"
    /\ Len(log) = 2
    /\ log[1].outcome = "ok" /\ log[1].new = 1 /\ log[1].skipped = 1
    /\ log[2].outcome # "ok"
    /\ total_new = 1
    /\ Len(csv["gdelt"].rows) = 1


\* C21: when two ingestion runs execute at once on the same seen-set store and
\* both find the same canonical link not yet seen, at most one of them appends
\* a dataset row with the id of that link: no id is in the rows of both
\* datasets.
C21_AtMostOneRunAppends ==
    \A k \in DOMAIN conc.proc["gdelt"].rows, j \in DOMAIN conc.proc["yahoo"].rows :
        conc.proc["gdelt"].rows[k] # conc.proc["yahoo"].rows[j]

\* the ids a process has appended or is about to append
ConcBatch(p) == conc.proc[p].rows \o
                (IF conc.proc[p].pc = "done" THEN <<>> ELSE conc.proc[p].new_rows)

\* C21, as the code has it: each of the two runs appends the id of a link at
\* most once, and a run whose SELECT for the link comes after the other run's
\* commit of its id counts the link as skipped and appends no row for it;
\* the id is in the seen-set store once it is in a dataset.
C21_AtMostOneRowPerRun ==
    /\ [](\A p \in {"gdelt", "yahoo"} :
            /\ \A k, j \in DOMAIN ConcBatch(p) :
                  ConcBatch(p)[k] = ConcBatch(p)[j] => k = j
            /\ \A k \in DOMAIN conc.proc[p].rows : conc.proc[p].rows[k] \in conc.seen)
    /\ [][\A p \in {"gdelt", "yahoo"} :
            (/\ conc.proc[p].pc = "check"
             /\ conc.proc[p].pos <= Len(conc.proc[p].items)
             /\ compute_id(conc.proc[p].items[conc.proc[p].pos]) \in conc.seen
             /\ conc'.proc[p] # conc.proc[p])
            => /\ conc'.proc[p].skipped = conc.proc[p].skipped + 1
               /\ conc'.proc[p].new_rows = conc.proc[p].new_rows
               /\ conc'.proc[p].pc = "check"]_vars

\* both runs found a link unseen and both have appended a row with its id;
\* the scrape run has skipped its other link, which the other run had committed
C21_BothAppended ==
    /\ conc.proc["gdelt"].pc = "done"
    /\ conc.proc["yahoo"].pc = "done"
    /\ \E k \in DOMAIN conc.proc["gdelt"].rows, j \in DOMAIN conc.proc["yahoo"].rows :
          conc.proc["gdelt"].rows[k] = conc.proc["yahoo"].rows[j]
    /\ conc.proc["yahoo"].skipped > 0
    /\ Len(conc.proc["yahoo"].items) = 2
    /\ conc.proc["yahoo"].items[1] # conc.proc["yahoo"].items[2]


\* GET requests issued so far for the current feed, counted from below: the
\* attempts of the fetch the last GET belongs to, and one GET for every fetch
\* of this feed that was over before it
GetsIssuedAtLeast ==
    CASE last.target \in {"api", "primary"} -> last.n
      [] last.target = "fallback" -> calls["primary"] + last.n
      [] last.target = "enrich" ->
            calls["primary"] + calls["fallback"] + (calls["enrich"] - 1) + last.n
      [] OTHER -> 0

\* C22: every run terminates whatever the upstream answers: processing one feed
\* issues at most 3 GET requests in the structured-API pipeline and at most
\* 3 (primary) + 3 (fallback) + 3 * max_items (enrichment) GET requests in the
\* scrape pipeline.
C22_GetsWithinBound ==
    GetsIssuedAtLeast <= (IF driver = "gdelt" THEN StopAfterAttempt
                          ELSE StopAfterAttempt + StopAfterAttempt
                               + StopAfterAttempt * max_items)

====
